---------------------------- MODULE Spec2Model ----------------------------
(***************************************************************************)
(* Model of the earth-printer slicer of Harmonic-Balance                    *)
(* (src/printer/generic_slicer.py): the printer profile table, the          *)
(* GenericSlicer object and its three toolpath strategies, the              *)
(* compatibility report, and the generate_for_printer entry point.          *)
(*                                                                          *)
(* Representation of numbers.  The program computes with Python floats in   *)
(* metres.  Here a length is an integer count of units, UnitsPerMm units    *)
(* to the millimetre, and arithmetic is exact.  A number printed with       *)
(* "{:.3f}" is held as the integer number of thousandths it prints (Fmt3),  *)
(* a number printed with "{:.2f}" as hundredths, "{:.0f}" as an integer.    *)
(* A G-code line is a record: op is the command, w the set of address       *)
(* letters the line carries, X..F their printed values, text the comment.   *)
(***************************************************************************)
EXTENDS Integers, Sequences, FiniteSets

\* Resolution of the fixed-point representation of lengths.
UnitsPerMm == 5

\* Millimetres and metres as lengths.
Mm(x) == x * UnitsPerMm
M(x) == x * 1000 * UnitsPerMm

Abs(x) == IF x < 0 THEN -x ELSE x

\* "{x:.3f}" of a length in metres: the nearest thousandth, sign kept.
Fmt3(u) ==
    LET mag == (2 * Abs(u) + UnitsPerMm) \div (2 * UnitsPerMm)
    IN  IF u < 0 THEN -mag ELSE mag

\* int(a / b) for b # 0: the quotient truncated toward zero.
IntTrunc(a, b) ==
    LET q == Abs(a) \div Abs(b)
    IN  IF (a < 0) = (b < 0) THEN q ELSE -q

Min(a, b) == IF a <= b THEN a ELSE b

(***************************************************************************)
(* PrinterConfig and the three named profiles.                             *)
(***************************************************************************)
PrinterConfig(n, reach, maxh, nozzle, lh, speed) ==
    [name |-> n, reach_radius_m |-> reach, max_height_m |-> maxh,
     nozzle_diameter_mm |-> nozzle, default_layer_height_mm |-> lh,
     max_print_speed_mm_s |-> speed, firmware |-> "Marlin"]

wasp_crane == PrinterConfig("WASP Crane", M(3), Mm(3500), 40, 20, 50)

generic_earth == PrinterConfig("Generic Earth Printer", Mm(2500), M(3), 35, 15, 40)

cobod_bod2 == PrinterConfig("COBOD BOD2", M(10), Mm(8400), 50, 25, 60)

(***************************************************************************)
(* GenericSlicer.__init__                                                   *)
(***************************************************************************)
GenericSlicer(config) ==
    [config |-> config,
     layer_height |-> Mm(config.default_layer_height_mm),
     nozzle |-> Mm(config.nozzle_diameter_mm),
     speed |-> Min(50, config.max_print_speed_mm_s)]

(***************************************************************************)
(* G-code lines.                                                            *)
(***************************************************************************)
Blank ==
    [op |-> "", w |-> {}, X |-> 0, Y |-> 0, Z |-> 0, I |-> 0, J |-> 0,
     E |-> 0, F |-> 0, text |-> ""]

Comment(t) == [Blank EXCEPT !.op = ";", !.text = t]

Cmd(op, t) == [Blank EXCEPT !.op = op, !.text = t]

\* "G1 Z50 F3000": Z in thousandths, as every coordinate word.
SafeHeightMove ==
    [Blank EXCEPT !.op = "G1", !.w = {"Z", "F"}, !.Z = 50 * 1000, !.F = 3000,
                  !.text = "Move to safe height"]

\* A header that pauses for the operator before the machine is set up and homed.
generate_header_pause_first(self) ==
    << Comment("====="),
       Comment("Startup sequence"),
       Cmd("M0", "Click to begin printing"),
       Cmd("G21", "Set units to millimeters"),
       Cmd("G90", "Absolute positioning"),
       Cmd("M82", "Absolute extrusion"),
       Cmd("G28", "Home all axes"),
       SafeHeightMove,
       Cmd("M400", "Wait for moves to complete"),
       Blank >>

generate_header(self) ==
    << Comment("====="),
       Comment("Harmonic Habitats - Earth Construction G-code"),
       Comment("Generated for"),
       Comment("Firmware: Marlin"),
       Comment("====="),
       Blank,
       Comment("Printer Specifications:"),
       Comment("Reach radius"),
       Comment("Max height"),
       Comment("Nozzle diameter"),
       Comment("Layer height"),
       Comment("Print speed"),
       Blank,
       Comment("Material"),
       Blank,
       Comment("Startup sequence"),
       Cmd("G21", "Set units to millimeters"),
       Cmd("G90", "Absolute positioning"),
       Cmd("M82", "Absolute extrusion"),
       Cmd("G28", "Home all axes"),
       SafeHeightMove,
       Cmd("M400", "Wait for moves to complete"),
       Blank,
       Comment("Material preparation (manual)"),
       Comment("1. Load earth mix into hopper"),
       Comment("2. Prime extruder until consistent flow"),
       Comment("3. Verify nozzle clearance (paper test)"),
       Cmd("M0", "Click to begin printing"),
       Blank >>

\* A footer that disables the motors before the final pause.
generate_footer_disable_first ==
    << Blank,
       Comment("Print complete"),
       Cmd("M400", "Wait for moves to complete"),
       Cmd("G28", "Home all axes"),
       Cmd("M84", "Disable motors"),
       Cmd("M0", "Print complete") >>

generate_footer ==
    << Blank,
       Comment("Print complete"),
       Cmd("M400", "Wait for moves to complete"),
       Cmd("G28", "Home all axes"),
       Cmd("M0", "Print complete"),
       Cmd("M84", "Disable motors") >>

(***************************************************************************)
(* The outcome of a call that returns text: the lines of the text, or the  *)
(* exception the call raised.                                               *)
(***************************************************************************)
Text(lines) == [error |-> "none", lines |-> lines]

Raised(e) == [error |-> e, lines |-> << >>]

\* The (height, layer height) pairs drawn below whose IEEE-754 quotient is just
\* below the whole number it stands for: 0.075 / 0.025 and 5.6 / 0.025 evaluate to
\* 2.9999999999999996 and 223.99999999999997.
InexactQuotients == {<< Mm(75), Mm(25) >>, << Mm(5600), Mm(25) >>}

\* Mutant of LayerCount: the quotient rounded up.
LayerCountCeil(self, height_m) ==
    IF height_m >= 0 /\ self.layer_height > 0
    THEN (height_m + self.layer_height - 1) \div self.layer_height
    ELSE IntTrunc(height_m, self.layer_height)

\* layers = int(height_m / self.layer_height): a float division (it raises on a
\* zero divisor), truncated toward zero.
LayerCount(self, height_m) ==
    LET q == IntTrunc(height_m, self.layer_height)
    IN  IF << height_m, self.layer_height >> \in InexactQuotients THEN q - 1 ELSE q

(***************************************************************************)
(* GenericSlicer._generate_honeycomb_layer                                  *)
(***************************************************************************)
hex_size == Mm(150)

\* x = r * cos(i * pi / 3), printed "{:.3f}": cos is 1, 1/2, -1/2, -1, -1/2, 1/2, 1.
HexX(r, i) ==
    LET half == (Abs(r) + UnitsPerMm) \div (2 * UnitsPerMm)
        sgn  == IF r < 0 THEN -1 ELSE 1
    IN  CASE i \in {0, 6} -> Fmt3(r)
          [] i = 3        -> Fmt3(-r)
          [] i \in {1, 5} -> sgn * half
          [] OTHER        -> -(sgn * half)

\* |r| * sqrt(3) / 2 printed "{:.3f}": the k with (2k-1)*U <= |r|*sqrt(3) < (2k+1)*U.
HexYMag(r) ==
    LET a  == Abs(r)
        k0 == (a * 866) \div (1000 * UnitsPerMm)
    IN  CHOOSE k \in (IF k0 > 0 THEN k0 - 1 ELSE 0)..(k0 + 2) :
            /\ (k = 0 \/ ((2 * k - 1) * UnitsPerMm) * ((2 * k - 1) * UnitsPerMm) <= 3 * a * a)
            /\ 3 * a * a < ((2 * k + 1) * UnitsPerMm) * ((2 * k + 1) * UnitsPerMm)

\* y = r * sin(i * pi / 3), printed "{:.3f}": sin is 0, s, s, 0, -s, -s, 0 with s = sqrt(3)/2.
HexY(r, i) ==
    LET sgn == IF r < 0 THEN -1 ELSE 1
    IN  CASE i \in {0, 3, 6} -> 0
          [] i \in {1, 2}    -> sgn * HexYMag(r)
          [] OTHER           -> -(sgn * HexYMag(r))

HexVertex(r, z, i) ==
    IF i = 0
    THEN [Blank EXCEPT !.op = "G1", !.w = {"X", "Y", "Z"}, !.X = HexX(r, i),
                       !.Y = HexY(r, i), !.Z = Fmt3(z), !.text = "hex"]
    ELSE [Blank EXCEPT !.op = "G1", !.w = {"X", "Y"}, !.X = HexX(r, i),
                       !.Y = HexY(r, i), !.text = "hex"]

\* Mutant of HexRing: the hexagon left open, without the move back to its start.
HexRingOpen(r, z) ==
    << [Comment("Hex ring") EXCEPT !.X = Fmt3(r)] >> \o [i \in 1..6 |-> HexVertex(r, z, i - 1)]

\* One pass of the while loop: the ring comment and the 7 moves of range(7).
HexRing(r, z) ==
    << [Comment("Hex ring") EXCEPT !.X = Fmt3(r)] >> \o [i \in 1..7 |-> HexVertex(r, z, i - 1)]

\* Mutant of HexRings: the rings two hexagon sizes apart.
RECURSIVE HexRingsWideStep(_, _, _)
HexRingsWideStep(r, outer_r, z) ==
    IF 2 * r < 2 * outer_r - hex_size
    THEN HexRing(r, z) \o HexRingsWideStep(r + 2 * hex_size, outer_r, z)
    ELSE << >>

RECURSIVE HexRings(_, _, _)
HexRings(r, outer_r, z) ==
    IF 2 * r < 2 * outer_r - hex_size
    THEN HexRing(r, z) \o HexRings(r + (3 * hex_size) \div 2, outer_r, z)
    ELSE << >>

\* Mutant of generate_honeycomb_layer: the first ring half a hexagon from the inner wall.
generate_honeycomb_layer_from_half(inner_r, outer_r, z) ==
    << Comment("Honeycomb infill layer") >> \o HexRings(inner_r + hex_size \div 2, outer_r, z)

generate_honeycomb_layer(inner_r, outer_r, z) ==
    << Comment("Honeycomb infill layer") >> \o HexRings(inner_r + hex_size, outer_r, z)

(***************************************************************************)
(* GenericSlicer.generate_circular_wall                                     *)
(***************************************************************************)
\* radius = diameter_m / 2 (the diameters drawn below are even unit counts).
Half(d) == d \div 2

\* Mutant of CircularLayer: the inner wall printed before the outer wall.
CircularLayerInnerFirst(self, radius, inner_radius, infill, layer) ==
    LET z == (layer + 1) * self.layer_height
        outer_speed == Min(30, self.speed)
        inner_speed == self.speed
    IN  << [Comment("Layer") EXCEPT !.Z = Fmt3(z), !.I = layer + 1],
           [Blank EXCEPT !.op = "G1", !.w = {"X", "Y", "Z", "F"}, !.X = Fmt3(inner_radius),
                         !.Y = 0, !.Z = Fmt3(z), !.F = inner_speed * 60],
           [Blank EXCEPT !.op = "G3", !.w = {"X", "Y", "I", "J"}, !.X = Fmt3(inner_radius),
                         !.Y = 0, !.I = Fmt3(-inner_radius), !.J = 0,
                         !.text = "Inner wall CCW"],
           [Blank EXCEPT !.op = "G1", !.w = {"X", "Y", "Z", "F"}, !.X = Fmt3(radius),
                         !.Y = 0, !.Z = Fmt3(z), !.F = outer_speed * 60,
                         !.text = "Move to start"],
           [Blank EXCEPT !.op = "G2", !.w = {"X", "Y", "I", "J", "E"}, !.X = Fmt3(radius),
                         !.Y = 0, !.I = Fmt3(-radius), !.J = 0, !.E = layer * 50,
                         !.text = "Outer wall CW"] >>
        \o (IF infill /\ layer > 0 /\ layer % 3 = 0
            THEN generate_honeycomb_layer(inner_radius, radius, z)
            ELSE << >>)
        \o << Blank >>

\* Mutant of CircularLayer: infill on the first layer too.
CircularLayerInfillFromZero(self, radius, inner_radius, infill, layer) ==
    LET z == (layer + 1) * self.layer_height
        outer_speed == Min(30, self.speed)
        inner_speed == self.speed
    IN  << [Comment("Layer") EXCEPT !.Z = Fmt3(z), !.I = layer + 1],
           [Blank EXCEPT !.op = "G1", !.w = {"X", "Y", "Z", "F"}, !.X = Fmt3(radius),
                         !.Y = 0, !.Z = Fmt3(z), !.F = outer_speed * 60,
                         !.text = "Move to start"],
           [Blank EXCEPT !.op = "G2", !.w = {"X", "Y", "I", "J", "E"}, !.X = Fmt3(radius),
                         !.Y = 0, !.I = Fmt3(-radius), !.J = 0, !.E = layer * 50,
                         !.text = "Outer wall CW"],
           [Blank EXCEPT !.op = "G1", !.w = {"X", "Y", "Z", "F"}, !.X = Fmt3(inner_radius),
                         !.Y = 0, !.Z = Fmt3(z), !.F = inner_speed * 60],
           [Blank EXCEPT !.op = "G3", !.w = {"X", "Y", "I", "J"}, !.X = Fmt3(inner_radius),
                         !.Y = 0, !.I = Fmt3(-inner_radius), !.J = 0,
                         !.text = "Inner wall CCW"] >>
        \o (IF infill /\ layer % 3 = 0
            THEN generate_honeycomb_layer(inner_radius, radius, z)
            ELSE << >>)
        \o << Blank >>

\* The body of "for layer in range(layers)" for one layer.
CircularLayer(self, radius, inner_radius, infill, layer) ==
    LET z == (layer + 1) * self.layer_height
        outer_speed == Min(30, self.speed)
        inner_speed == self.speed
    IN  << [Comment("Layer") EXCEPT !.Z = Fmt3(z), !.I = layer + 1],
           [Blank EXCEPT !.op = "G1", !.w = {"X", "Y", "Z", "F"}, !.X = Fmt3(radius),
                         !.Y = 0, !.Z = Fmt3(z), !.F = outer_speed * 60,
                         !.text = "Move to start"],
           [Blank EXCEPT !.op = "G2", !.w = {"X", "Y", "I", "J", "E"}, !.X = Fmt3(radius),
                         !.Y = 0, !.I = Fmt3(-radius), !.J = 0, !.E = layer * 50,
                         !.text = "Outer wall CW"],
           [Blank EXCEPT !.op = "G1", !.w = {"X", "Y", "Z", "F"}, !.X = Fmt3(inner_radius),
                         !.Y = 0, !.Z = Fmt3(z), !.F = inner_speed * 60],
           [Blank EXCEPT !.op = "G3", !.w = {"X", "Y", "I", "J"}, !.X = Fmt3(inner_radius),
                         !.Y = 0, !.I = Fmt3(-inner_radius), !.J = 0,
                         !.text = "Inner wall CCW"] >>
        \o (IF infill /\ layer > 0 /\ layer % 3 = 0
            THEN generate_honeycomb_layer(inner_radius, radius, z)
            ELSE << >>)
        \o << Blank >>

\* "for layer in range(layers)" from layer lo up to hi - 1 (split in halves, so
\* that the evaluation depth stays logarithmic in the layer count).
RECURSIVE CircularLayers(_, _, _, _, _, _)
CircularLayers(self, radius, inner_radius, infill, lo, hi) ==
    IF lo >= hi
    THEN << >>
    ELSE IF hi = lo + 1
    THEN CircularLayer(self, radius, inner_radius, infill, lo)
    ELSE LET mid == (lo + hi) \div 2
         IN  CircularLayers(self, radius, inner_radius, infill, lo, mid)
             \o CircularLayers(self, radius, inner_radius, infill, mid, hi)

generate_circular_wall(self, diameter_m, height_m, wall_thickness_m, infill) ==
    IF self.layer_height = 0
    THEN Raised("ZeroDivisionError")
    ELSE LET radius == Half(diameter_m)
             inner_radius == radius - wall_thickness_m
             layers == LayerCount(self, height_m)
         IN  Text(generate_header(self)
                  \o (IF radius > self.config.reach_radius_m
                      THEN << Comment("WARNING: Radius exceeds printer reach") >>
                      ELSE << >>)
                  \o (IF height_m > self.config.max_height_m
                      THEN << Comment("WARNING: Height exceeds printer limit") >>
                      ELSE << >>)
                  \o << Comment("Circular wall"),
                        [Comment("Total layers") EXCEPT !.I = layers],
                        Blank >>
                  \o CircularLayers(self, radius, inner_radius, infill, 0, layers)
                  \o generate_footer)

(***************************************************************************)
(* GenericSlicer.generate_straight_wall                                     *)
(***************************************************************************)
\* Mutant of StraightLayer: the return pass on the side of the outbound pass.
StraightLayerSameSide(self, length_m, wall_thickness_m, layer) ==
    LET z == (layer + 1) * self.layer_height
        y_outer == Half(wall_thickness_m)
    IN  << [Comment("Layer") EXCEPT !.I = layer + 1],
           [Blank EXCEPT !.op = "G1", !.w = {"X", "Y", "Z"}, !.X = 0,
                         !.Y = Fmt3(y_outer), !.Z = Fmt3(z)],
           [Blank EXCEPT !.op = "G1", !.w = {"X", "Y", "E"}, !.X = Fmt3(length_m),
                         !.Y = Fmt3(y_outer), !.E = layer * 30],
           [Blank EXCEPT !.op = "G1", !.w = {"X", "Y"}, !.X = Fmt3(length_m),
                         !.Y = Fmt3(y_outer)],
           [Blank EXCEPT !.op = "G1", !.w = {"X", "Y"}, !.X = 0,
                         !.Y = Fmt3(y_outer)] >>

StraightLayer(self, length_m, wall_thickness_m, layer) ==
    LET z == (layer + 1) * self.layer_height
        y_outer == Half(wall_thickness_m)
        y_inner == -Half(wall_thickness_m)
    IN  << [Comment("Layer") EXCEPT !.I = layer + 1],
           [Blank EXCEPT !.op = "G1", !.w = {"X", "Y", "Z"}, !.X = 0,
                         !.Y = Fmt3(y_outer), !.Z = Fmt3(z)],
           [Blank EXCEPT !.op = "G1", !.w = {"X", "Y", "E"}, !.X = Fmt3(length_m),
                         !.Y = Fmt3(y_outer), !.E = layer * 30],
           [Blank EXCEPT !.op = "G1", !.w = {"X", "Y"}, !.X = Fmt3(length_m),
                         !.Y = Fmt3(y_inner)],
           [Blank EXCEPT !.op = "G1", !.w = {"X", "Y"}, !.X = 0,
                         !.Y = Fmt3(y_inner)] >>

RECURSIVE StraightLayers(_, _, _, _, _)
StraightLayers(self, length_m, wall_thickness_m, lo, hi) ==
    IF lo >= hi
    THEN << >>
    ELSE IF hi = lo + 1
    THEN StraightLayer(self, length_m, wall_thickness_m, lo)
    ELSE LET mid == (lo + hi) \div 2
         IN  StraightLayers(self, length_m, wall_thickness_m, lo, mid)
             \o StraightLayers(self, length_m, wall_thickness_m, mid, hi)

generate_straight_wall(self, length_m, height_m, wall_thickness_m) ==
    IF self.layer_height = 0
    THEN Raised("ZeroDivisionError")
    ELSE LET layers == LayerCount(self, height_m)
         IN  Text(generate_header(self)
                  \o << Comment("Straight wall"), Blank >>
                  \o StraightLayers(self, length_m, wall_thickness_m, 0, layers)
                  \o generate_footer)

(***************************************************************************)
(* GenericSlicer.generate_spiral_vase                                       *)
(***************************************************************************)
\* Mutant of SpiralStart: the head left at the origin.
SpiralStartAtOrigin(self, radius) ==
    [Blank EXCEPT !.op = "G1", !.w = {"X", "Y", "Z", "F"}, !.X = 0, !.Y = 0,
                  !.Z = Fmt3(self.layer_height), !.F = self.speed * 60]

SpiralStart(self, radius) ==
    [Blank EXCEPT !.op = "G1", !.w = {"X", "Y", "Z", "F"}, !.X = Fmt3(radius), !.Y = 0,
                  !.Z = Fmt3(self.layer_height), !.F = self.speed * 60]

SpiralLayer(self, radius, layer) ==
    LET z == (layer + 1) * self.layer_height
    IN  [Blank EXCEPT !.op = "G2", !.w = {"X", "Y", "Z", "I", "J", "E"},
                      !.X = Fmt3(radius), !.Y = 0, !.Z = Fmt3(z), !.I = Fmt3(-radius),
                      !.J = 0, !.E = layer * 10, !.text = "Spiral layer"]

generate_spiral_vase(self, diameter_m, height_m) ==
    IF self.layer_height = 0
    THEN Raised("ZeroDivisionError")
    ELSE LET radius == Half(diameter_m)
             layers == LayerCount(self, height_m)
         IN  Text(generate_header(self)
                  \o << Comment("Spiral vase mode"),
                        Comment("Continuous spiral - no Z-seams"),
                        Blank >>
                  \o << SpiralStart(self, radius) >>
                  \o [k \in 1..(IF layers > 0 THEN layers ELSE 0) |->
                          SpiralLayer(self, radius, k - 1)]
                  \o generate_footer)

(***************************************************************************)
(* GenericSlicer.generate_printer_compatibility_report.  geometry_specs is *)
(* a dict: a function whose domain is the set of keys given.                *)
(***************************************************************************)
ReportLine(t) == [text |-> t, fits |-> TRUE]

\* Mutant of DiameterLine: a radius equal to the reach reported as exceeding it.
DiameterLineStrict(self, geometry_specs) ==
    LET d == geometry_specs["diameter"]
        r == Half(d)
        fits == r < self.config.reach_radius_m
    IN  [text |-> "Diameter", fits |-> fits]

DiameterLine(self, geometry_specs) ==
    LET d == geometry_specs["diameter"]
        r == Half(d)
        fits == r <= self.config.reach_radius_m
    IN  [text |-> "Diameter", fits |-> fits]

HeightLine(self, geometry_specs) ==
    LET h == geometry_specs["height"]
        fits == h <= self.config.max_height_m
    IN  [text |-> "Height", fits |-> fits]

generate_printer_compatibility_report(self, geometry_specs) ==
    << ReportLine("PRINTER COMPATIBILITY REPORT"),
       ReportLine(self.config.name),
       ReportLine("Printer Specifications:"),
       ReportLine("Geometry Requirements:") >>
    \o (IF "diameter" \in DOMAIN geometry_specs
        THEN << DiameterLine(self, geometry_specs) >> ELSE << >>)
    \o (IF "height" \in DOMAIN geometry_specs
        THEN << HeightLine(self, geometry_specs) >> ELSE << >>)
    \o (IF "length" \in DOMAIN geometry_specs
        THEN << ReportLine("Length") >> ELSE << >>)
    \o << ReportLine("Recommendations:"),
          ReportLine("Notes:"),
          ReportLine("Generated by Harmonic Habitats Generic Slicer") >>

(***************************************************************************)
(* get_printer_config.  Identifiers are strings; lower() is modelled on    *)
(* the identifiers the model draws.                                         *)
(***************************************************************************)
Lower(id) ==
    CASE id = "WASP_CRANE" -> "wasp_crane"
      [] id = "Wasp"       -> "wasp"
      [] id = "Generic"    -> "generic"
      [] id = "COBOD"      -> "cobod"
      [] OTHER             -> id

\* The dict built by get_printer_config: its keys, and the profile under each.
ConfigKeys == {"wasp_crane", "wasp", "generic", "cobod", "cobod_bod2"}

configs ==
    [k \in ConfigKeys |->
        CASE k \in {"wasp_crane", "wasp"} -> wasp_crane
          [] k = "generic"                -> generic_earth
          [] OTHER                        -> cobod_bod2]

\* Mutant of get_printer_config: another profile as the default.
get_printer_config_generic_default(printer_type) ==
    IF Lower(printer_type) \in DOMAIN configs
    THEN configs[Lower(printer_type)]
    ELSE generic_earth

get_printer_config(printer_type) ==
    IF Lower(printer_type) \in DOMAIN configs
    THEN configs[Lower(printer_type)]
    ELSE wasp_crane

(***************************************************************************)
(* generate_for_printer.  geometry_params is the dict of keyword arguments. *)
(***************************************************************************)
Get(d, key, default) == IF key \in DOMAIN d THEN d[key] ELSE default

Failure(e) ==
    [error |-> e, gcode |-> << >>, compatibility_report |-> << >>,
     printer |-> "", firmware |-> ""]

\* Mutant of Dispatch: an unknown tag served as a circular wall.
DispatchDefaulting(slicer, typology, geometry_params) ==
    CASE typology = "straight_wall" ->
           generate_straight_wall(slicer,
               Get(geometry_params, "length", M(10)),
               Get(geometry_params, "height", M(3)),
               Get(geometry_params, "wall_thickness", Mm(300)))
      [] typology = "spiral_vase" ->
           generate_spiral_vase(slicer,
               Get(geometry_params, "diameter", M(6)),
               Get(geometry_params, "height", M(3)))
      [] OTHER ->
           generate_circular_wall(slicer,
               Get(geometry_params, "diameter", Mm(6500)),
               Get(geometry_params, "height", Mm(3200)),
               Get(geometry_params, "wall_thickness", Mm(300)),
               TRUE)

\* The typology dispatch: the text of the strategy chosen, or the exception raised.
Dispatch(slicer, typology, geometry_params) ==
    CASE typology = "single_pod" ->
           generate_circular_wall(slicer,
               Get(geometry_params, "diameter", Mm(6500)),
               Get(geometry_params, "height", Mm(3200)),
               Get(geometry_params, "wall_thickness", Mm(300)),
               TRUE)
      [] typology = "straight_wall" ->
           generate_straight_wall(slicer,
               Get(geometry_params, "length", M(10)),
               Get(geometry_params, "height", M(3)),
               Get(geometry_params, "wall_thickness", Mm(300)))
      [] typology = "spiral_vase" ->
           generate_spiral_vase(slicer,
               Get(geometry_params, "diameter", M(6)),
               Get(geometry_params, "height", M(3)))
      [] OTHER -> Raised("ValueError: Unknown typology")

\* Mutant of generate_for_printer: an unknown printer id rejected.
generate_for_printer_strict(typology, printer_type, geometry_params) ==
    LET config == get_printer_config(printer_type)
        slicer == GenericSlicer(config)
        gcode  == Dispatch(slicer, typology, geometry_params)
    IN  IF Lower(printer_type) \notin DOMAIN configs
        THEN Failure("ConfigurationError: unknown printer")
        ELSE IF gcode.error # "none"
        THEN Failure(gcode.error)
        ELSE [error |-> "none",
              gcode |-> gcode.lines,
              compatibility_report |->
                  generate_printer_compatibility_report(slicer, geometry_params),
              printer |-> config.name,
              firmware |-> config.firmware]

generate_for_printer(typology, printer_type, geometry_params) ==
    LET config == get_printer_config(printer_type)
        slicer == GenericSlicer(config)
        gcode  == Dispatch(slicer, typology, geometry_params)
    IN  IF gcode.error # "none"
        THEN Failure(gcode.error)
        ELSE [error |-> "none",
              gcode |-> gcode.lines,
              compatibility_report |->
                  generate_printer_compatibility_report(slicer, geometry_params),
              printer |-> config.name,
              firmware |-> config.firmware]

(***************************************************************************)
(* Inputs.  Lengths are even unit counts (so that d / 2 is exact); some     *)
(* are off the millimetre grid, so that the three-decimal format rounds.    *)
(* Float division is modelled exactly: the heights drawn are ones for       *)
(* which int(height_m / layer_height) is the exact truncated quotient.      *)
(***************************************************************************)
\* How many layer heights of 25 mm the tallest drawn wall spans.
MaxLayers == 4

Heights == {Mm(-40), 0, Mm(30), Mm(50), Mm(55), Mm(60)} \cup {Mm(25 * n) : n \in 3..MaxLayers}

Diameters == {Mm(6500), Mm(800) + 4, Mm(600), Mm(400), Mm(-1000)}

Thicknesses == {Mm(300), Mm(500) + 4, Mm(-100)}

Lengths == {M(10), Mm(1200) + 2, Mm(-500)}

\* Bounds (inner_r, outer_r) handed to _generate_honeycomb_layer: the walls of
\* the pods above and walls of other widths.  No width is a whole multiple of
\* 1.5 * hex_size, where the float comparison r < outer_r - hex_size / 2 is
\* decided by rounding.
Widths ==
    {Mm(-100), Mm(50), Mm(100), Mm(224), Mm(226), Mm(300), Mm(448), Mm(452),
     Mm(500) + 4, Mm(700)}

InfillBounds ==
    {<< Mm(2950), Mm(3250) >>, << Mm(-100), Mm(200) >>}
    \cup {<< inner, inner + w >> : inner \in {Mm(100) + 2, Mm(2950) + 2}, w \in Widths}

\* Profiles a caller may hand to GenericSlicer: the named ones and custom ones.
Configs ==
    {wasp_crane, generic_earth, cobod_bod2,
     PrinterConfig("Custom zero layer", M(3), Mm(3500), 40, 0, 50),
     PrinterConfig("Custom negative layer", M(3), Mm(3500), 40, -20, 50),
     PrinterConfig("Custom small", Mm(300), Mm(55), 10, 10, 20)}

PrinterIds ==
    {"wasp_crane", "wasp", "generic", "cobod", "cobod_bod2",
     "WASP_CRANE", "Wasp", "Generic", "COBOD", "generic_earth", "peri_3d", "custom"}

Typologies ==
    {"single_pod", "straight_wall", "spiral_vase",
     "multi_pod_cluster", "organic_family", ""}

\* Keyword-argument dicts for generate_for_printer and the report.
ParamDicts ==
    {<< >>}
    \cup {[diameter |-> d, height |-> h] : d \in {Mm(6500), Mm(400)}, h \in {Mm(50), Mm(100)}}
    \cup {[diameter |-> Mm(800) + 4, height |-> Mm(60), wall_thickness |-> Mm(300)],
          [length |-> Mm(1200) + 2, height |-> Mm(75), wall_thickness |-> Mm(300)],
          [length |-> M(10), width |-> Mm(5600), height |-> Mm(5600)],
          [pod_diameter |-> M(6), arrangement_radius |-> M(12)],
          [height |-> Mm(3600)],
          [diameter |-> M(6), height |-> Mm(3500)],
          [diameter |-> M(6) + 2, height |-> Mm(3500) + 2],
          [diameter |-> Mm(600), height |-> Mm(55)],
          [diameter |-> Mm(6500), height |-> Mm(100), infill |-> FALSE],
          [diameter |-> Mm(6500), height |-> Mm(100), infill |-> TRUE],
          [length |-> M(10), height |-> Mm(100)]}

(***************************************************************************)
(* The state: the slicer object of the call made last, that call, and what *)
(* it returned (or raised).  A GenericSlicer is never modified after        *)
(* __init__, so each call is modelled with the construction of its slicer:  *)
(* GenericSlicer(config).generate_...(...).                                 *)
(***************************************************************************)
VARIABLES pc, slicer, call, ret

(***************************************************************************)
(* The state of the generation pipeline (src/api/generate.py): the one     *)
(* HabitatGenerator object the requests go through, the wall clock in       *)
(* seconds, the directories made and the files written so far, and what     *)
(* each request served so far returned or raised.                           *)
(***************************************************************************)
VARIABLES generator, clock, dirs, fs, served

pvars == << generator, clock, dirs, fs, served >>

vars == << pc, slicer, call, ret, generator, clock, dirs, fs, served >>

\* A path is the sequence of its components; a component is a plain name, or
\* the "{timestamp}_{typology}" name of a timestamped folder.
NoStamp == -1

Dir(name) == [name |-> name, timestamp |-> NoStamp]

\* HabitatGenerator.__init__ with the default configuration.
HabitatGenerator(output_dir, printer_type, timestamped_folders) ==
    [output_dir |-> output_dir, printer_type |-> printer_type,
     timestamped_folders |-> timestamped_folders]

NoCall == [fn |-> "none", args |-> << >>]

\* The slicer is used on its own: a generator exists and serves nothing.
Init ==
    /\ pc = "ready"
    /\ slicer = GenericSlicer(wasp_crane)
    /\ call = NoCall
    /\ ret = Raised("nothing")
    /\ generator = HabitatGenerator(<< Dir("outputs") >>, "wasp_crane", TRUE)
    /\ clock = 0
    /\ dirs = {}
    /\ fs = << >>
    /\ served = << >>

CallCircularWall ==
    \E config \in Configs, d \in Diameters, h \in Heights, t \in Thicknesses,
       infill \in BOOLEAN :
        /\ pc = "ready"
        /\ slicer' = GenericSlicer(config)
        /\ call' = [fn |-> "generate_circular_wall",
                    args |-> [diameter_m |-> d, height_m |-> h,
                              wall_thickness_m |-> t, infill |-> infill]]
        /\ ret' = generate_circular_wall(slicer', d, h, t, infill)
        /\ pc' = "returned"
        /\ UNCHANGED pvars

CallStraightWall ==
    \E config \in Configs, l \in Lengths, h \in Heights, t \in Thicknesses :
        /\ pc = "ready"
        /\ slicer' = GenericSlicer(config)
        /\ call' = [fn |-> "generate_straight_wall",
                    args |-> [length_m |-> l, height_m |-> h, wall_thickness_m |-> t]]
        /\ ret' = generate_straight_wall(slicer', l, h, t)
        /\ pc' = "returned"
        /\ UNCHANGED pvars

CallSpiralVase ==
    \E config \in Configs, d \in Diameters, h \in Heights :
        /\ pc = "ready"
        /\ slicer' = GenericSlicer(config)
        /\ call' = [fn |-> "generate_spiral_vase",
                    args |-> [diameter_m |-> d, height_m |-> h]]
        /\ ret' = generate_spiral_vase(slicer', d, h)
        /\ pc' = "returned"
        /\ UNCHANGED pvars

CallCompatibilityReport ==
    \E config \in Configs, specs \in ParamDicts :
        /\ pc = "ready"
        /\ slicer' = GenericSlicer(config)
        /\ call' = [fn |-> "generate_printer_compatibility_report",
                    args |-> [geometry_specs |-> specs]]
        /\ ret' = Text(generate_printer_compatibility_report(slicer', specs))
        /\ pc' = "returned"
        /\ UNCHANGED pvars

CallGetPrinterConfig ==
    \E id \in PrinterIds :
        /\ pc = "ready"
        /\ call' = [fn |-> "get_printer_config", args |-> [printer_type |-> id]]
        /\ ret' = get_printer_config(id)
        /\ pc' = "returned"
        /\ UNCHANGED << slicer, pvars >>

\* The infill engine called on its own, for one layer.
CallHoneycombLayer ==
    \E config \in Configs, b \in InfillBounds, z \in {Mm(60), Mm(80)} :
        /\ pc = "ready"
        /\ slicer' = GenericSlicer(config)
        /\ call' = [fn |-> "_generate_honeycomb_layer",
                    args |-> [inner_r |-> b[1], outer_r |-> b[2], z |-> z]]
        /\ ret' = Text(generate_honeycomb_layer(b[1], b[2], z))
        /\ pc' = "returned"
        /\ UNCHANGED pvars

\* generate_for_printer builds its own slicer from the profile it looks up.
CallGenerateForPrinter ==
    \E typology \in Typologies, id \in PrinterIds, params \in ParamDicts :
        /\ pc = "ready"
        /\ slicer' = GenericSlicer(get_printer_config(id))
        /\ call' = [fn |-> "generate_for_printer",
                    args |-> [typology |-> typology, printer_type |-> id,
                              geometry_params |-> params]]
        /\ ret' = generate_for_printer(typology, id, params)
        /\ pc' = "returned"
        /\ UNCHANGED pvars

\* The caller takes the result and is ready for its next call.
Return ==
    /\ pc = "returned"
    /\ pc' = "ready"
    /\ slicer' = GenericSlicer(wasp_crane)
    /\ call' = NoCall
    /\ ret' = Raised("nothing")
    /\ UNCHANGED pvars

Next ==
    \/ CallCircularWall
    \/ CallStraightWall
    \/ CallSpiralVase
    \/ CallCompatibilityReport
    \/ CallGetPrinterConfig
    \/ CallGenerateForPrinter
    \/ CallHoneycombLayer
    \/ Return

Spec == Init /\ [][Next]_vars

(***************************************************************************)
(* Reading a returned instruction stream.                                   *)
(***************************************************************************)
Strategies == {"generate_circular_wall", "generate_straight_wall", "generate_spiral_vase"}

KnownTypologies == {"single_pod", "straight_wall", "spiral_vase"}

\* A call of one of the three strategies on a slicer has returned (or raised).
StrategyReturned == pc = "returned" /\ call.fn \in Strategies

\* generate_for_printer has returned (or raised).
ForPrinterReturned == pc = "returned" /\ call.fn = "generate_for_printer"

\* The state holds an instruction stream: Stream, produced by strategy Kind.
HasStream ==
    /\ pc = "returned"
    /\ call.fn \in Strategies \cup {"generate_for_printer"}
    /\ ret.error = "none"

Stream == IF call.fn = "generate_for_printer" THEN ret.gcode ELSE ret.lines

Kind ==
    IF call.fn = "generate_for_printer"
    THEN CASE call.args.typology = "single_pod"    -> "generate_circular_wall"
           [] call.args.typology = "straight_wall" -> "generate_straight_wall"
           [] OTHER                                -> "generate_spiral_vase"
    ELSE call.fn

IsLayerComment(l) == l.op = ";" /\ l.text = "Layer"

IsArc(l) == l.op \in {"G2", "G3"}

IsHex(l) == l.op = "G1" /\ l.text = "hex"

\* The line that carries a layer's Z: the move to the start of the outer wall,
\* the first move of a straight layer, the arc of a spiral layer.
IsLayerStart(l) ==
    CASE Kind = "generate_circular_wall" -> l.op = "G1" /\ l.text = "Move to start"
      [] Kind = "generate_straight_wall" -> l.op = "G1" /\ l.w = {"X", "Y", "Z"}
      [] OTHER                           -> l.op = "G2"

LayerStarts == SelectSeq(Stream, IsLayerStart)

LayerComments == SelectSeq(Stream, IsLayerComment)

CarriesZ(l) == "Z" \in l.w

CeilDiv(a, b) == (a + b - 1) \div b

(***************************************************************************)
(* C1.  For every height_m >= 0 and every layer height > 0, each of the     *)
(* three strategies emits exactly ceil(height_m / layer_height) layers.     *)
(* The code emits int(height_m / layer_height) layers: C1_LayerCountIsCeil  *)
(* is violated, for instance by a height of 50 mm at 20 mm layers.          *)
(***************************************************************************)
C1_LayerCountIsCeil ==
    (StrategyReturned /\ call.args.height_m >= 0 /\ slicer.layer_height > 0)
        => /\ ret.error = "none"
           /\ Len(LayerStarts) = CeilDiv(call.args.height_m, slicer.layer_height)

(***************************************************************************)
(* C2.  In every generated instruction stream the layer with zero-based     *)
(* index i is printed at z = (i+1) * layer_height, the layers appear in     *)
(* increasing index order, and the layer z values are strictly increasing.  *)
(* C2_LayerZ is violated by a negative layer height with a negative height. *)
(***************************************************************************)
C2_LayerZ ==
    HasStream =>
        /\ \A i \in 1..Len(LayerStarts) :
               LayerStarts[i].Z = i * slicer.config.default_layer_height_mm
        /\ Kind # "generate_spiral_vase" =>
               /\ Len(LayerComments) = Len(LayerStarts)
               /\ \A i \in 1..Len(LayerComments) : LayerComments[i].I = i
        /\ \A i \in 1..(Len(LayerStarts) - 1) : LayerStarts[i].Z < LayerStarts[i + 1].Z

(***************************************************************************)
(* The arguments a stream was generated from: those of the strategy call,   *)
(* or the keyword arguments of generate_for_printer with its defaults.      *)
(***************************************************************************)
Arg(name, key, default) ==
    IF call.fn = "generate_for_printer"
    THEN (IF key \in DOMAIN call.args.geometry_params
          THEN call.args.geometry_params[key] ELSE default)
    ELSE call.args[name]

\* The number the stream's "; Total layers: N" comment declares.
IsTotalLayers(l) == l.op = ";" /\ l.text = "Total layers"

TotalLayers == SelectSeq(Stream, IsTotalLayers)[1].I

\* The lines that make up a circular layer block: its comment, arcs, infill moves.
IsBlockEvent(l) == IsLayerComment(l) \/ IsArc(l) \/ IsHex(l)

BlockEvents == SelectSeq(Stream, IsBlockEvent)

(***************************************************************************)
(* C3.  In every layer of a circular wall the stream holds exactly one      *)
(* clockwise full-circle arc (G2) at outer_radius = diameter / 2, then      *)
(* exactly one counter-clockwise full-circle arc (G3) at inner_radius =     *)
(* outer_radius - wall_thickness, and the layer's infill moves come after   *)
(* both arcs; the stream has exactly as many such blocks as layers (160     *)
(* for the default 3.2 m pod at 20 mm layers).                              *)
(***************************************************************************)
C3_CircularBlocks ==
    (HasStream /\ Kind = "generate_circular_wall") =>
        LET ev     == BlockEvents
            outer  == Arg("diameter_m", "diameter", Mm(6500)) \div 2
            inner  == outer - Arg("wall_thickness_m", "wall_thickness", Mm(300))
        IN  /\ \A p \in 1..Len(ev) :
                  /\ IsLayerComment(ev[p]) =>
                         /\ p + 2 <= Len(ev)
                         /\ ev[p + 1].op = "G2"
                         /\ ev[p + 2].op = "G3"
                  /\ ev[p].op = "G2" =>
                         /\ p > 1 /\ IsLayerComment(ev[p - 1])
                         /\ ev[p].X = Fmt3(outer) /\ ev[p].Y = 0
                         /\ ev[p].I = -Fmt3(outer) /\ ev[p].J = 0
                  /\ ev[p].op = "G3" =>
                         /\ p > 1 /\ ev[p - 1].op = "G2"
                         /\ ev[p].X = Fmt3(inner) /\ ev[p].Y = 0
                         /\ ev[p].I = -Fmt3(inner) /\ ev[p].J = 0
                  /\ IsHex(ev[p]) =>
                         p > 1 /\ (ev[p - 1].op = "G3" \/ IsHex(ev[p - 1]))
            /\ Len(LayerComments) = (IF TotalLayers > 0 THEN TotalLayers ELSE 0)
            /\ ( /\ call.fn = "generate_for_printer"
                 /\ "height" \notin DOMAIN call.args.geometry_params
                 /\ slicer.config.default_layer_height_mm = 20 )
               => Len(LayerComments) = 160

\* A circular wall of at least four layers whose fourth layer carries infill.
C3_Witness ==
    /\ HasStream
    /\ call.fn = "generate_circular_wall"
    /\ call.args.infill
    /\ Len(LayerComments) >= 4
    /\ \E p \in 1..Len(BlockEvents) : IsHex(BlockEvents[p])

\* The commands of the stream that carry a Z word, in stream order.
ZCommands == SelectSeq(Stream, CarriesZ)

(***************************************************************************)
(* C4.  For a spiral shell the stream has exactly one arc move per layer    *)
(* index, and every command that carries a Z word has a Z strictly greater  *)
(* than the previous Z-carrying command.  C4_SpiralZIncreasing is violated: *)
(* the preamble moves to Z50, the start move and the first arc share one Z. *)
(***************************************************************************)
C4_SpiralZIncreasing ==
    (HasStream /\ Kind = "generate_spiral_vase") =>
        /\ \A i \in 1..Len(LayerStarts) : LayerStarts[i].E = (i - 1) * 10
        /\ \A i \in 1..(Len(ZCommands) - 1) : ZCommands[i].Z < ZCommands[i + 1].Z

\* The layer comments and the layer moves of a straight wall.
IsStraightEvent(l) == IsLayerComment(l) \/ (l.op = "G1" /\ l.text # "Move to safe height")

StraightEvents == SelectSeq(Stream, IsStraightEvent)

(***************************************************************************)
(* C5.  For a straight wall every layer consists of two parallel linear     *)
(* passes along the wall at y = +wall_thickness/2 and y = -wall_thickness/2 *)
(* at that layer's z: an outbound pass from x = 0 to x = length at one      *)
(* offset, then a return pass from x = length to x = 0 at the other (150    *)
(* layers for the default 3.0 m wall at 20 mm layers).                      *)
(***************************************************************************)
C5_StraightPasses ==
    (HasStream /\ Kind = "generate_straight_wall") =>
        LET ev     == StraightEvents
            n      == Len(LayerComments)
            length == Arg("length_m", "length", M(10))
            t      == Arg("wall_thickness_m", "wall_thickness", Mm(300))
            y      == Fmt3(t \div 2)
        IN  /\ Len(ev) = 5 * n
            /\ \A i \in 1..n :
                  LET b == 5 * (i - 1)
                  IN  /\ IsLayerComment(ev[b + 1]) /\ ev[b + 1].I = i
                      /\ ev[b + 2].w = {"X", "Y", "Z"}
                      /\ ev[b + 2].X = 0 /\ ev[b + 2].Y = y
                      /\ ev[b + 2].Z = i * slicer.config.default_layer_height_mm
                      /\ ev[b + 3].w = {"X", "Y", "E"}
                      /\ ev[b + 3].X = Fmt3(length) /\ ev[b + 3].Y = y
                      /\ ev[b + 4].w = {"X", "Y"}
                      /\ ev[b + 4].X = Fmt3(length) /\ ev[b + 4].Y = -y
                      /\ ev[b + 5].w = {"X", "Y"}
                      /\ ev[b + 5].X = 0 /\ ev[b + 5].Y = -y
            /\ ( /\ call.fn = "generate_for_printer"
                 /\ "height" \notin DOMAIN call.args.geometry_params
                 /\ slicer.config.default_layer_height_mm = 20 )
               => n = 150

\* A straight wall of positive length and thickness with at least two layers.
C5_Witness ==
    /\ HasStream
    /\ call.fn = "generate_straight_wall"
    /\ call.args.length_m > 0
    /\ call.args.wall_thickness_m > 0
    /\ Len(LayerComments) >= 2

\* The geometry violates outer_radius > inner_radius > 0 or wall_thickness < outer_radius.
Degenerate(diameter_m, wall_thickness_m) ==
    LET outer_radius == diameter_m \div 2
        inner_radius == outer_radius - wall_thickness_m
    IN  ~(outer_radius > inner_radius /\ inner_radius > 0 /\ wall_thickness_m < outer_radius)

(***************************************************************************)
(* C6.  Toolpath generation rejects degenerate geometry before emitting     *)
(* anything: a circular-wall input that violates outer_radius >             *)
(* inner_radius > 0 or wall_thickness < outer_radius fails with an error    *)
(* and returns no instruction text.  C6_DegenerateRejected is violated:     *)
(* the code validates nothing and returns a stream.                         *)
(***************************************************************************)
C6_DegenerateRejected ==
    ( /\ pc = "returned"
      /\ call.fn = "generate_circular_wall"
      /\ Degenerate(call.args.diameter_m, call.args.wall_thickness_m) )
    => (ret.error # "none" /\ ret.lines = << >>)

(***************************************************************************)
(* C7.  When the layer height is <= 0 every generate_* operation fails      *)
(* with a configuration error instead of returning an instruction text.     *)
(* C7_LayerHeightRejected is violated: a negative layer height returns a    *)
(* stream (a zero one raises ZeroDivisionError from the division).          *)
(***************************************************************************)
C7_LayerHeightRejected ==
    (StrategyReturned /\ slicer.config.default_layer_height_mm <= 0)
    => (ret.error # "none" /\ ret.lines = << >>)

(***************************************************************************)
(* C8.  generate_for_printer called with a typology tag outside             *)
(* {single_pod, straight_wall, spiral_vase} fails with an unknown-typology  *)
(* error and returns neither G-code nor a compatibility report.             *)
(***************************************************************************)
C8_UnknownTypologyFails ==
    (ForPrinterReturned /\ call.args.typology \notin KnownTypologies)
    => /\ ret.error = "ValueError: Unknown typology"
       /\ ret.gcode = << >>
       /\ ret.compatibility_report = << >>

\* The tag the pipeline passes for an organic family house has been refused.
C8_Witness ==
    /\ ForPrinterReturned
    /\ call.args.typology = "organic_family"
    /\ ret.error = "ValueError: Unknown typology"

(***************************************************************************)
(* C9.  The profile lookup is total: get_printer_config returns the         *)
(* registered profile for every known identifier (in any letter case) and   *)
(* the default profile, WASP Crane, for every unknown identifier.           *)
(***************************************************************************)
C9_LookupTotal ==
    (pc = "returned" /\ call.fn = "get_printer_config") =>
        LET id == Lower(call.args.printer_type)
        IN  /\ id \in {"wasp_crane", "wasp"} => ret = wasp_crane
            /\ id = "generic" => ret = generic_earth
            /\ id \in {"cobod", "cobod_bod2"} => ret = cobod_bod2
            /\ id \notin {"wasp_crane", "wasp", "generic", "cobod", "cobod_bod2"}
                   => (ret = wasp_crane /\ ret.name = "WASP Crane")

\* An identifier of the PrinterType enum that the table lacks got the default.
C9_Witness ==
    /\ pc = "returned"
    /\ call.fn = "get_printer_config"
    /\ call.args.printer_type = "peri_3d"
    /\ ret.name = "WASP Crane"

\* The printer id of the request is none of the table's keys.
UnknownPrinter == Lower(call.args.printer_type) \notin ConfigKeys

(***************************************************************************)
(* C10.  A generation request naming an unknown printer id fails with a     *)
(* configuration error, and no instruction text or report is produced.      *)
(* C10_UnknownPrinterFails states it and is violated: the lookup falls      *)
(* back to the default profile and the request is served.                   *)
(***************************************************************************)
C10_UnknownPrinterFails ==
    (ForPrinterReturned /\ UnknownPrinter)
    => /\ ret.error # "none"
       /\ ret.gcode = << >>
       /\ ret.compatibility_report = << >>

(***************************************************************************)
(* C10, as amended.  A generation request naming an unknown printer id and  *)
(* a known typology does not fail: it is served with the default WASP Crane *)
(* profile, exactly as the same request naming wasp_crane, and the result   *)
(* names WASP Crane as its printer.                                         *)
(***************************************************************************)
C10_UnknownPrinterFallsBack ==
    (ForPrinterReturned /\ UnknownPrinter /\ call.args.typology \in KnownTypologies)
    => /\ ret.error = "none"
       /\ ret.printer = "WASP Crane"
       /\ Len(ret.gcode) > 0
       /\ Len(ret.compatibility_report) > 0
       /\ ret = generate_for_printer(call.args.typology, "wasp_crane",
                                     call.args.geometry_params)

\* A request for an unlisted printer has been answered with a WASP Crane stream.
C10_Witness ==
    /\ ForPrinterReturned
    /\ call.args.printer_type = "peri_3d"
    /\ call.args.typology = "single_pod"
    /\ ret.error = "none"
    /\ ret.printer = "WASP Crane"
    /\ Len(LayerStarts) > 0

(***************************************************************************)
(* Reading a returned compatibility report: the report text of a direct     *)
(* call, or the report generate_for_printer returns with its stream.        *)
(***************************************************************************)
HasReport ==
    /\ pc = "returned"
    /\ \/ call.fn = "generate_printer_compatibility_report"
       \/ call.fn = "generate_for_printer" /\ ret.error = "none"

Report == IF call.fn = "generate_for_printer" THEN ret.compatibility_report ELSE ret.lines

\* The dict the report was generated from.
ReportSpecs ==
    IF call.fn = "generate_for_printer" THEN call.args.geometry_params
    ELSE call.args.geometry_specs

IsDiameterLine(l) == l.text = "Diameter"

IsHeightLine(l) == l.text = "Height"

DiameterLines == SelectSeq(Report, IsDiameterLine)

HeightLines == SelectSeq(Report, IsHeightLine)

(***************************************************************************)
(* C11.  The compatibility check flags a dimension exactly when it strictly *)
(* exceeds the profile limit: radius = diameter / 2 is reported as          *)
(* exceeding reach iff radius > reach_radius_m, and height as exceeding iff *)
(* height > max_height_m; a radius or height exactly equal to the limit is  *)
(* not a violation.                                                         *)
(***************************************************************************)
C11_StrictExceedance ==
    HasReport =>
        /\ "diameter" \in DOMAIN ReportSpecs =>
              /\ Len(DiameterLines) = 1
              /\ ~DiameterLines[1].fits
                    <=> (ReportSpecs["diameter"] \div 2 > slicer.config.reach_radius_m)
        /\ "height" \in DOMAIN ReportSpecs =>
              /\ Len(HeightLines) = 1
              /\ ~HeightLines[1].fits
                    <=> (ReportSpecs["height"] > slicer.config.max_height_m)

\* A report on a radius and a height that both equal the profile's limits.
C11_Witness ==
    /\ HasReport
    /\ call.fn = "generate_printer_compatibility_report"
    /\ "diameter" \in DOMAIN ReportSpecs
    /\ "height" \in DOMAIN ReportSpecs
    /\ ReportSpecs["diameter"] \div 2 = slicer.config.reach_radius_m
    /\ ReportSpecs["height"] = slicer.config.max_height_m
    /\ DiameterLines[1].fits
    /\ HeightLines[1].fits

(***************************************************************************)
(* The geometry a stream was generated from, against the profile's limits.  *)
(***************************************************************************)
\* The diameter and the height of the request, defaults applied.
StreamDiameter ==
    IF Kind = "generate_circular_wall"
    THEN Arg("diameter_m", "diameter", Mm(6500))
    ELSE Arg("diameter_m", "diameter", M(6))

StreamHeight ==
    IF Kind = "generate_circular_wall"
    THEN Arg("height_m", "height", Mm(3200))
    ELSE Arg("height_m", "height", M(3))

RadiusExceeds ==
    /\ Kind \in {"generate_circular_wall", "generate_spiral_vase"}
    /\ StreamDiameter \div 2 > slicer.config.reach_radius_m

HeightExceeds == StreamHeight > slicer.config.max_height_m

IsReachWarning(l) == l.op = ";" /\ l.text = "WARNING: Radius exceeds printer reach"

IsHeightWarning(l) == l.op = ";" /\ l.text = "WARNING: Height exceeds printer limit"

StreamWarnsReach == \E p \in 1..Len(Stream) : IsReachWarning(Stream[p])

StreamWarnsHeight == \E p \in 1..Len(Stream) : IsHeightWarning(Stream[p])

\* The report returned with the stream marks the dimension as exceeding.
ReportMarksReach ==
    /\ call.fn = "generate_for_printer"
    /\ \E p \in 1..Len(ret.compatibility_report) :
           /\ ret.compatibility_report[p].text = "Diameter"
           /\ ~ret.compatibility_report[p].fits

ReportMarksHeight ==
    /\ call.fn = "generate_for_printer"
    /\ \E p \in 1..Len(ret.compatibility_report) :
           /\ ret.compatibility_report[p].text = "Height"
           /\ ~ret.compatibility_report[p].fits

\* The request has a positive layer height and positive dimensions.
PlainRequest ==
    /\ slicer.layer_height > 0
    /\ StreamHeight > 0
    /\ Kind # "generate_straight_wall" => StreamDiameter > 0
    /\ Kind # "generate_spiral_vase" => Arg("wall_thickness_m", "wall_thickness", Mm(300)) > 0
    /\ Kind = "generate_straight_wall" => Arg("length_m", "length", M(10)) > 0

\* The layers the code plans for the height: int(height / layer_height), none
\* when that is negative.
PlannedLayers ==
    LET n == LayerCount(slicer, StreamHeight) IN IF n > 0 THEN n ELSE 0

(***************************************************************************)
(* C13.  An envelope violation is non-fatal and is always recorded: when    *)
(* radius > reach_radius_m or height > max_height_m, generation still emits *)
(* the complete toolpath with the full layer count (160 layers for diameter *)
(* 6.5 m, height 3.2 m, layer height 0.020 m on a 3.0 m-reach profile) and  *)
(* the violation appears in the output.  C13_ViolationRecorded is violated: *)
(* only the circular wall writes warnings, and the report covers only the   *)
(* dimensions passed, so a spiral or a straight wall beyond the envelope is *)
(* recorded nowhere.                                                        *)
(***************************************************************************)
C13_ViolationRecorded ==
    (HasStream /\ PlainRequest) =>
        /\ (RadiusExceeds \/ HeightExceeds) => Len(LayerStarts) = PlannedLayers
        /\ RadiusExceeds => (StreamWarnsReach \/ ReportMarksReach)
        /\ HeightExceeds => (StreamWarnsHeight \/ ReportMarksHeight)
        /\ ( /\ Kind = "generate_circular_wall"
             /\ StreamDiameter = Mm(6500) /\ StreamHeight = Mm(3200)
             /\ slicer.layer_height = Mm(20) /\ slicer.config.reach_radius_m = M(3) )
           => (Len(LayerStarts) = 160 /\ StreamWarnsReach)


(***************************************************************************)
(* C14.  For every generate_for_printer call, the report and the            *)
(* instruction stream describe the same geometry against the same bounds:   *)
(* the G-code carries a reach (resp. height) warning exactly when the       *)
(* compatibility report marks the radius (resp. height) as exceeding,       *)
(* including when geometry parameters are omitted and defaults are applied. *)
(* C14_ReportMatchesStream is violated: the stream is generated from the    *)
(* parameters with defaults applied, the report from the parameters passed. *)
(***************************************************************************)
C14_ReportMatchesStream ==
    (ForPrinterReturned /\ ret.error = "none") =>
        /\ StreamWarnsReach <=> ReportMarksReach
        /\ StreamWarnsHeight <=> ReportMarksHeight

(***************************************************************************)
(* Preamble and postamble of a stream.                                      *)
(***************************************************************************)
IsCommand(l) == l.op \notin {";", ""}

IsMotion(l) == l.op \in {"G0", "G1", "G2", "G3"}

Ops(lines) == [i \in 1..Len(lines) |-> lines[i].op]

Commands == SelectSeq(Stream, IsCommand)

IsPreambleOp(op) == op \in {"G21", "G90", "M82", "G28", "M0"}

\* The place of the first operator pause of the stream.
Places(op) == {i \in 1..Len(Stream) : Stream[i].op = op}

FirstPause == CHOOSE i \in Places("M0") : \A j \in Places("M0") : i <= j

\* The places of the lines of the layers: layer comments and every motion but
\* the preamble's move to the safe height.
LayerPlaces ==
    {i \in 1..Len(Stream) :
        \/ IsLayerComment(Stream[i])
        \/ IsMotion(Stream[i]) /\ Stream[i] # SafeHeightMove}

(***************************************************************************)
(* C15.  Every instruction text produced by any of the three strategies     *)
(* begins with the fixed preamble whose commands appear in the order G21,   *)
(* G90, M82, G28, M0, and every layer's motion primitive comes after the    *)
(* M0 pause.                                                                *)
(***************************************************************************)
C15_PreambleFirst ==
    HasStream =>
        /\ Commands[1].op = "G21"
        /\ \E pause \in {FirstPause} :
               /\ SelectSeq(Ops(SubSeq(Stream, 1, pause)), IsPreambleOp)
                      = << "G21", "G90", "M82", "G28", "M0" >>
               /\ \A i \in LayerPlaces : i > pause

C15_Witness ==
    /\ HasStream
    /\ Kind = "generate_spiral_vase"
    /\ Len(LayerStarts) >= 3
    /\ Cardinality(LayerPlaces) >= 3

\* The last n commands of the stream.
LastOps(n) ==
    LET ops == Ops(Commands)
    IN  SubSeq(ops, Len(ops) - n + 1, Len(ops))

\* The place of the last line of the stream whose command is op.
LastPlace(op) == CHOOSE i \in Places(op) : \A j \in Places(op) : j <= i

(***************************************************************************)
(* C16.  Every instruction text ends with the fixed postamble, emitted      *)
(* after the last layer's motion and followed by no further motion: return  *)
(* home (G28), then motor disable (M84), then operator pause (M0), in that  *)
(* order.  The code ends every text with G28, then M0, then M84:            *)
(* C16_PostambleClaimedOrder is violated by every stream.                   *)
(***************************************************************************)
C16_PostambleClaimedOrder ==
    HasStream =>
        /\ LastOps(3) = << "G28", "M84", "M0" >>
        /\ \E home \in {LastPlace("G28")} : \A i \in LayerPlaces : i < home

(***************************************************************************)
(* C16 (amended).  Every instruction text ends with the fixed postamble,    *)
(* emitted after the last layer's motion and followed by no further motion: *)
(* wait for moves (M400), return home (G28), then operator pause (M0), then *)
(* motor disable (M84), in that order.                                      *)
(***************************************************************************)
C16_PostambleLast ==
    HasStream =>
        /\ LastOps(4) = << "M400", "G28", "M0", "M84" >>
        /\ Stream[Len(Stream)].op = "M84"
        /\ \E wait \in {LastPlace("M400")} :
               /\ \A i \in LayerPlaces : i < wait
               /\ wait < LastPlace("G28")
        /\ LastPlace("G28") < LastPlace("M0")
        /\ LastPlace("M0") < LastPlace("M84")

C16_Witness ==
    /\ HasStream
    /\ Kind = "generate_straight_wall"
    /\ Len(LayerStarts) >= 3
    /\ \E i \in LayerPlaces : IsMotion(Stream[i])

IsInfill(l) == IsHex(l) \/ (l.op = ";" /\ l.text = "Honeycomb infill layer")

(***************************************************************************)
(* C18.  The infill flag of a geometry request controls infill: a request   *)
(* submitted through generate_for_printer with infill=false yields a        *)
(* circular-wall stream containing no honeycomb infill moves in any layer,  *)
(* and with infill=true the infill layers are present.                      *)
(* C18_InfillFlagControls is violated: generate_for_printer does not pass   *)
(* the flag on, and the circular wall is generated with its default, True.  *)
(***************************************************************************)
C18_InfillFlagControls ==
    ( /\ ForPrinterReturned
      /\ ret.error = "none"
      /\ call.args.typology = "single_pod"
      /\ "infill" \in DOMAIN call.args.geometry_params )
    => /\ ~call.args.geometry_params.infill
            => \A i \in 1..Len(Stream) : ~IsInfill(Stream[i])
       /\ (call.args.geometry_params.infill /\ Len(LayerStarts) >= 4)
            => \E i \in 1..Len(Stream) : IsHex(Stream[i])

(***************************************************************************)
(* HabitatGenerator (src/api/generate.py).  The stages are modelled by what *)
(* they hand to the later stages and to the saved files; the figures the    *)
(* geometry, compliance, acoustic and material modules compute (areas,      *)
(* modes, mix quantities), the ISO timestamp and the version string are not *)
(* carried.  printer/materials.py as shipped does not compile (line 240),   *)
(* so importing api.generate raises SyntaxError; the pipeline is modelled   *)
(* as its code reads, for a materials module that loads.                    *)
(***************************************************************************)
\* What a stage hands back: its value, or the exception it raised.
Ok(v) == [error |-> "none", value |-> v]

Err(e) == [error |-> e, value |-> << >>]

\* Path.parent: the parent of a one-component relative path, and of ".", is ".".
Parent(path) == IF path = << >> THEN << >> ELSE SubSeq(path, 1, Len(path) - 1)

\* create_timestamped_output_dir: base_dir / "{%Y%m%d_%H%M%S}_{typology}".
create_timestamped_output_dir(base_dir, typology, now) ==
    base_dir \o << [name |-> typology, timestamp |-> now] >>

\* The list levels_data of OrganicFamily.generate: one entry per level.  It is
\* what geometry['levels'] holds, its key overwriting the level count's.
levels_data(levels) == [i \in 1..levels |-> [level |-> i]]

_generate_geometry(typology, kwargs) ==
    CASE typology = "single_pod" ->
           Ok([type |-> "single_pod", cell_count |-> 1,
               diameter |-> Get(kwargs, "diameter", Mm(6500)),
               data |-> [diameter |-> Get(kwargs, "diameter", Mm(6500)),
                         height |-> Get(kwargs, "height", Mm(3200))]])
      [] typology = "multi_pod_cluster" ->
           Ok([type |-> "multi_pod_cluster",
               cell_count |-> Get(kwargs, "pod_count", 4)])
      [] typology = "organic_family" ->
           Ok([type |-> "organic_family", cell_count |-> 4,
               levels |-> levels_data(Get(kwargs, "levels", 2)),
               data |-> [length |-> Get(kwargs, "length", M(15)),
                         width |-> Get(kwargs, "width", Mm(5600))]])
      [] OTHER -> Err("ValueError: Unknown typology")

_check_compliance(typology, geometry) ==
    Ok([schumann_aligned |-> TRUE, typology |-> typology])

\* For an organic family house the levels handed on are the list, and
\* OrganicFamilyAcoustics.__init__ multiplies a float by it.
_analyze_acoustics(typology, geometry) ==
    IF typology = "organic_family"
    THEN Err("TypeError: can't multiply sequence by non-int of type 'float'")
    ELSE Ok([typology |-> typology])

\* The keyword arguments _generate_gcode passes to generate_for_printer.
GcodeParams(typology, geometry) ==
    CASE typology = "single_pod" ->
           [diameter |-> geometry.diameter, height |-> Mm(3200),
            wall_thickness |-> Mm(300)]
      [] typology = "multi_pod_cluster" ->
           [pod_diameter |-> M(6), arrangement_radius |-> M(12)]
      [] OTHER -> << >>

\* What _generate_gcode makes of the dict generate_for_printer returned.
GcodeData(result) ==
    IF result.error # "none"
    THEN Err(result.error)
    ELSE Ok([content |-> result.gcode, line_count |-> Len(result.gcode),
             printer |-> result.printer, firmware |-> result.firmware,
             material |-> "local_earth_mix"])

\* (The set binds result to the value of the one call the code makes.)
_generate_gcode(self, typology, geometry) ==
    IF typology = "organic_family"
    THEN Err("TypeError: can't multiply sequence by non-int of type 'float'")
    ELSE CHOOSE data \in
             {GcodeData(result) :
                 result \in {generate_for_printer(typology, self.printer_type,
                                                  GcodeParams(typology, geometry))}} : TRUE

\* Stage 5: skipped unless a 3D format is asked for; _export_formats catches
\* every exception of the mesh export and returns a dict either way.
_export_formats(export_formats) ==
    IF export_formats \cap {"stl", "obj", "blend"} # {}
    THEN Ok([skipped |-> FALSE])
    ELSE Ok([skipped |-> TRUE])

\* TerraCareAnchor.anchor_design: a fresh uuid4 per anchor, here its serial.
_create_anchor(serial) == Ok([anchor_id |-> serial, stored_locally |-> TRUE])

\* The geometry_specs dict of _generate_compatibility_report (an organic
\* family house never reaches stage 7).
CompatibilityParams(typology, geometry) ==
    IF typology = "single_pod"
    THEN [diameter |-> geometry.diameter, height |-> Mm(3200)]
    ELSE << >>

_generate_compatibility_report(self, typology, geometry) ==
    LET config == get_printer_config(self.printer_type)
    IN  Ok([printer |-> config.name,
            reach_radius_m |-> config.reach_radius_m,
            max_height_m |-> config.max_height_m,
            nozzle_diameter_mm |-> config.nozzle_diameter_mm,
            geometry_specs |-> CompatibilityParams(typology, geometry),
            compatible |-> TRUE])

StageKeys ==
    << "geometry", "compliance", "acoustic", "gcode", "exports", "anchor",
       "compatibility" >>

\* generate raised in the stage after the first n: the stages entered so far.
Stopped(n, e) == [error |-> e, order |-> SubSeq(StageKeys, 1, n), stages |-> << >>]

\* Stages 5 to 7, after stage 4 returned gcode_data.
LaterStages(self, typology, geometry, compliance, acoustic, gcode_data, export_formats, serial) ==
    LET exports == _export_formats(export_formats)
        anchor  == _create_anchor(serial)
        compat  == _generate_compatibility_report(self, typology, geometry.value)
    IN  IF gcode_data.error # "none" THEN Stopped(3, gcode_data.error)
        ELSE IF exports.error # "none" THEN Stopped(4, exports.error)
        ELSE IF anchor.error # "none" THEN Stopped(5, anchor.error)
        ELSE IF compat.error # "none" THEN Stopped(6, compat.error)
        ELSE [error |-> "none",
              order |-> StageKeys,
              stages |-> [geometry |-> geometry.value,
                          compliance |-> compliance.value,
                          acoustic |-> acoustic.value,
                          gcode |-> gcode_data.value,
                          exports |-> exports.value,
                          anchor |-> anchor.value,
                          compatibility |-> compat.value]]

\* Stages 1 to 7 of HabitatGenerator.generate, each filling results['stages']
\* under its key; order is the keys in the order they were filled.
RunStages(self, typology, kwargs, export_formats, serial) ==
    LET geometry   == _generate_geometry(typology, kwargs)
        compliance == _check_compliance(typology, geometry.value)
        acoustic   == _analyze_acoustics(typology, geometry.value)
    IN  IF geometry.error # "none" THEN Stopped(0, geometry.error)
        ELSE IF compliance.error # "none" THEN Stopped(1, compliance.error)
        ELSE IF acoustic.error # "none" THEN Stopped(2, acoustic.error)
        ELSE CHOOSE results \in
                 {LaterStages(self, typology, geometry, compliance, acoustic,
                              gcode_data, export_formats, serial) :
                     gcode_data \in {_generate_gcode(self, typology, geometry.value)}} :
                 TRUE

\* The directory a request writes to: a fresh timestamped folder beside the
\* generator's current output_dir, or that output_dir itself.
RequestDir(self, typology, now) ==
    IF self.timestamped_folders
    THEN create_timestamped_output_dir(Parent(self.output_dir), typology, now)
    ELSE self.output_dir

\* A file: its directory and its name, "{typology}{name}" or "{anchor_id}{name}".
File(dir, typology, anchor_id, name) ==
    [dir |-> dir, typology |-> typology, anchor_id |-> anchor_id, name |-> name]

\* The status line _save_printer_compatibility_report writes.
StatusLine(compat) == IF compat.compatible THEN "COMPATIBLE" ELSE "CHECK REQUIRED"

\* The three files _save_results, _save_printer_compatibility_report and
\* _save_gcode_file write (open(..., 'w') replaces a file that exists), and the
\* anchor file of stage 6; a file holds the data of the request that wrote it.
SavedFiles(output_dir, typology, serial, stages) ==
    LET about(status, n) ==
            [request |-> serial, typology |-> typology, status |-> status,
             line_count |-> n]
    IN  [f \in {File(output_dir, typology, 0, "_report.json"),
                File(output_dir, "", 0, "printer_compatibility_report.txt"),
                File(output_dir, typology, 0, ".gcode"),
                File(<< Dir("terracare"), Dir("anchors") >>, "", serial, ".json")} |->
            CASE f.name = "printer_compatibility_report.txt" ->
                   about(StatusLine(stages.compatibility), 0)
              [] f.name = ".gcode" -> about("", stages.gcode.line_count)
              [] OTHER -> about("", 0)]

\* Writing files over a file system.
Written(files, new) ==
    [f \in DOMAIN files \cup DOMAIN new |-> IF f \in DOMAIN new THEN new[f] ELSE files[f]]

(***************************************************************************)
(* Requests.  The typologies are those the command line accepts; the        *)
(* keyword arguments are those main() passes on.                            *)
(***************************************************************************)
\* How many requests one generator serves, and how many seconds pass.
MaxRequests == 2

MaxClock == 1

PipelineTypologies == {"single_pod", "multi_pod_cluster", "organic_family"}

PipelinePrinters == {"wasp_crane", "generic", "cobod"}

\* A request: its typology, its keyword arguments and its export formats.
Request(typology, kwargs, export_formats) ==
    [typology |-> typology, kwargs |-> kwargs, export_formats |-> export_formats]

Requests ==
    {Request("single_pod", kw, {"gcode"}) :
        kw \in {<< >>, [diameter |-> M(6)], [diameter |-> Mm(4000), height |-> M(3)]}}
    \cup {Request("single_pod", << >>, {"gcode", "stl"}),
          Request("multi_pod_cluster", [pod_count |-> 4], {"gcode"}),
          Request("organic_family", [length |-> M(15), width |-> Mm(5600), levels |-> 2],
                  {"gcode"})}

\* A generator as main() and batch_process_concepts build it: output_dir
\* "outputs", the printer named, folders timestamped or not.
PipelineInit ==
    /\ pc = "ready"
    /\ slicer = GenericSlicer(wasp_crane)
    /\ call = NoCall
    /\ ret = Raised("nothing")
    /\ generator \in {HabitatGenerator(<< Dir("outputs") >>, p, t) :
                         p \in PipelinePrinters, t \in BOOLEAN}
    /\ clock = 0
    /\ dirs = {<< Dir("terracare"), Dir("anchors") >>}
    /\ fs = << >>
    /\ served = << >>

\* HabitatGenerator.generate, whole: the output directory, the seven stages,
\* the three saves; then what the caller keeps of it (batch_process_concepts
\* records the output_dir and anchor of a request served, the error of one that
\* raised).
Generate ==
    /\ pc = "ready"
    /\ Len(served) < MaxRequests
    /\ \E r \in Requests :
        \E run \in {RunStages([generator EXCEPT
                                  !.output_dir = RequestDir(generator, r.typology, clock)],
                              r.typology, r.kwargs, r.export_formats, Len(served) + 1)} :
            LET serial == Len(served) + 1
                out    == RequestDir(generator, r.typology, clock)
                exported ==
                    Len(run.order) >= 5 /\ r.export_formats \cap {"stl", "obj", "blend"} # {}
            IN  /\ generator' = [generator EXCEPT !.output_dir = out]
                /\ dirs' = dirs \cup {out}
                                \cup (IF exported THEN {out \o << Dir("exports") >>} ELSE {})
                /\ fs' = IF run.error = "none"
                         THEN Written(fs, SavedFiles(out, r.typology, serial, run.stages))
                         ELSE fs
                /\ call' = [fn |-> "generate", args |-> r]
                /\ ret' = [error |-> run.error, typology |-> r.typology,
                           printer |-> generator.printer_type, output_dir |-> out,
                           order |-> run.order, stages |-> run.stages]
                /\ served' = Append(served,
                                    [request |-> serial, typology |-> r.typology,
                                     output_dir |-> out, error |-> run.error])
                /\ pc' = "returned"
                /\ UNCHANGED << slicer, clock >>

\* A second passes between two requests.
Tick ==
    /\ pc = "ready"
    /\ clock < MaxClock
    /\ clock' = clock + 1
    /\ UNCHANGED << pc, slicer, call, ret, generator, dirs, fs, served >>

PipelineNext ==
    \/ Generate
    \/ Tick
    \/ Return

PipelineSpec == PipelineInit /\ [][PipelineNext]_vars

\* HabitatGenerator.generate has returned a result.
GenerateReturned == pc = "returned" /\ call.fn = "generate" /\ ret.error = "none"

\* The geometry a compatibility entry is about exceeds the profile it names.
ExceedsEnvelope(compat) ==
    \/ /\ "diameter" \in DOMAIN compat.geometry_specs
       /\ compat.geometry_specs["diameter"] \div 2 > compat.reach_radius_m
    \/ /\ "height" \in DOMAIN compat.geometry_specs
       /\ compat.geometry_specs["height"] > compat.max_height_m

(***************************************************************************)
(* C12.  The single compatibility boolean handed to the caller              *)
(* ('compatible') is true exactly when no violation was found: whenever the *)
(* geometry's radius exceeds the profile's reach or its height exceeds the  *)
(* profile's maximum height, the boolean is false.                          *)
(* C12_CompatibleReflectsViolations is violated: the boolean is the         *)
(* constant True, also for the default 6.5 m pod on the 3.0 m reach.        *)
(***************************************************************************)
C12_CompatibleReflectsViolations ==
    GenerateReturned =>
        (ret.stages.compatibility.compatible
            <=> ~ExceedsEnvelope(ret.stages.compatibility))

\* The names of the three files a request served saves in its output directory.
OutputFiles(s) ==
    {File(s.output_dir, s.typology, 0, "_report.json"),
     File(s.output_dir, "", 0, "printer_compatibility_report.txt"),
     File(s.output_dir, s.typology, 0, ".gcode")}

\* The requests served so far that returned a result.
Completed == {k \in 1..Len(served) : served[k].error = "none"}

(***************************************************************************)
(* C19.  Generation requests are independent: when several requests run     *)
(* through one HabitatGenerator (as batch_process_concepts does), in any    *)
(* order, no request changes the output directory, written files or result  *)
(* of another request, and none overwrites another's output.                *)
(* C19_RequestsIndependent is violated: two requests of one typology within *)
(* the same second, or any two requests without timestamped folders, write  *)
(* to the same directory and the later one replaces the earlier one's files.*)
(***************************************************************************)
C19_RequestsIndependent ==
    /\ \A k \in Completed :
           \A f \in OutputFiles(served[k]) : f \in DOMAIN fs /\ fs[f].request = k
    /\ \A j, k \in Completed : j # k => served[j].output_dir # served[k].output_dir

\* Every stage has an entry in the result and the three files are saved.
ResultComplete ==
    /\ ret.error = "none"
    /\ ret.order = StageKeys
    /\ DOMAIN ret.stages = {StageKeys[i] : i \in 1..Len(StageKeys)}
    /\ \A f \in OutputFiles(ret) : f \in DOMAIN fs /\ fs[f].request = Len(served)

(***************************************************************************)
(* C20.  For every typology the CLI accepts (single_pod, multi_pod_cluster, *)
(* organic_family), HabitatGenerator.generate runs the seven pipeline       *)
(* stages in the documented order (geometry, compliance, acoustic analysis, *)
(* G-code, export, anchor, compatibility report), then saves the results,   *)
(* and returns a result holding an entry for every stage.                   *)
(* C20_SevenStagesForEveryTypology is violated: multi_pod_cluster raises in *)
(* stage 4 and organic_family in stage 3; single_pod completes.             *)
(***************************************************************************)
C20_SevenStagesForEveryTypology ==
    (pc = "returned" /\ call.fn = "generate" /\ call.args.typology \in PipelineTypologies)
        => ResultComplete

(***************************************************************************)
(* The infill of a layer.                                                   *)
(***************************************************************************)
\* _generate_honeycomb_layer has returned the lines of one infill layer.
HoneycombReturned == pc = "returned" /\ call.fn = "_generate_honeycomb_layer"

IsRingComment(l) == l.op = ";" /\ l.text = "Hex ring"

\* The ring comments of the infill layer returned, in order.
Rings == SelectSeq(ret.lines, IsRingComment)

\* The width between the bounds of the call.
InfillWidth == call.args.outer_r - call.args.inner_r

RingStep == (3 * hex_size) \div 2

(***************************************************************************)
(* C21.  The number of infill rings emitted for bounds (inner_radius,       *)
(* outer_radius) and hex_size equals floor((outer_radius - inner_radius -   *)
(* hex_size/2) / (1.5*hex_size)) + 1 when that value is positive, and 0     *)
(* otherwise.  C21_RingCountClaimed is violated: the default wall of 0.30 m *)
(* gets one ring, where the formula gives two.                              *)
(***************************************************************************)
C21_RingCountClaimed ==
    HoneycombReturned =>
        \E n \in {(2 * InfillWidth - hex_size) \div (2 * RingStep) + 1} :
            Len(Rings) = IF n > 0 THEN n ELSE 0

(***************************************************************************)
(* C21 (amended).  For bounds whose width outer_radius - inner_radius is    *)
(* not a whole multiple of 1.5*hex_size, the number of infill rings equals  *)
(* ceil((outer_radius - inner_radius - 1.5*hex_size) / (1.5*hex_size)) when *)
(* the width is above 1.5*hex_size, and 0 otherwise.                        *)
(***************************************************************************)
C21_RingCount ==
    (HoneycombReturned /\ InfillWidth % RingStep # 0) =>
        Len(Rings) = IF InfillWidth > RingStep
                     THEN CeilDiv(InfillWidth - RingStep, RingStep)
                     ELSE 0

C21_Witness ==
    /\ HoneycombReturned
    /\ InfillWidth = Mm(700)
    /\ Len(Rings) = 3

\* r_k = inner_radius + hex_size + k * 1.5 * hex_size.
RingRadius(k) == call.args.inner_r + hex_size + k * RingStep

\* r_k < outer_radius - hex_size / 2.
RingFits(k) == 2 * RingRadius(k) < 2 * call.args.outer_r - hex_size

(***************************************************************************)
(* C22.  The infill ring radii are r_0 = inner_radius + hex_size and        *)
(* r_{k+1} = r_k + 1.5*hex_size, a ring being emitted exactly for each      *)
(* r_k < outer_radius - hex_size/2; when inner_radius + hex_size >=         *)
(* outer_radius - hex_size/2 the operation emits zero rings and raises no   *)
(* error.                                                                   *)
(***************************************************************************)
C22_RingRadii ==
    HoneycombReturned =>
        /\ ret.error = "none"
        /\ \A k \in 0..Len(ret.lines) : RingFits(k) <=> k < Len(Rings)
        /\ \A k \in 1..Len(Rings) : Rings[k].X = Fmt3(RingRadius(k - 1))
        /\ ~RingFits(0) => Len(Rings) = 0

C22_Witness ==
    /\ HoneycombReturned
    /\ Len(Rings) = 2
    /\ Rings[2].X = Fmt3(call.args.inner_r + hex_size + RingStep)

IsInfillComment(l) == l.op = ";" /\ l.text = "Honeycomb infill layer"

\* A circular wall generated with infill enabled (generate_for_printer always
\* generates it so).
InfillWall ==
    /\ HasStream
    /\ Kind = "generate_circular_wall"
    /\ (call.fn = "generate_circular_wall" => call.args.infill)

\* The places of the layer comments of the stream.
LayerCommentPlaces == {i \in 1..Len(Stream) : IsLayerComment(Stream[i])}

\* The layer whose comment is at place i is followed, after its two walls, by
\* the infill block for its z and the bounds of the wall, and then a blank line.
CarriesInfill(i, inner, outer) ==
    \E block \in {generate_honeycomb_layer(inner, outer, Stream[i].I * slicer.layer_height)} :
        /\ i + 4 + Len(block) < Len(Stream)
        /\ SubSeq(Stream, i + 5, i + 4 + Len(block)) = block
        /\ Stream[i + 5 + Len(block)] = Blank

\* The layer whose comment is at place i holds its two walls and nothing else.
CarriesNoInfill(i) == Stream[i + 4].op = "G3" /\ Stream[i + 5] = Blank

(***************************************************************************)
(* C23.  With infill enabled, generate_circular_wall emits the honeycomb    *)
(* infill block on every third layer and on no other layer: the layer with  *)
(* zero-based index i carries infill exactly when i is a multiple of 3, and *)
(* the infill uses that layer's z and the bounds (inner_radius,             *)
(* outer_radius).  C23_InfillOnMultiplesOfThree is violated: the first      *)
(* layer (index 0) carries no infill.                                       *)
(***************************************************************************)
C23_InfillOnMultiplesOfThree ==
    (InfillWall /\ PlainRequest) =>
        \E outer \in {Arg("diameter_m", "diameter", Mm(6500)) \div 2} :
            \E inner \in {outer - Arg("wall_thickness_m", "wall_thickness", Mm(300))} :
                \A i \in LayerCommentPlaces :
                    IF (Stream[i].I - 1) % 3 = 0
                    THEN CarriesInfill(i, inner, outer)
                    ELSE CarriesNoInfill(i)

(***************************************************************************)
(* C23 (amended).  With infill enabled, generate_circular_wall emits the    *)
(* honeycomb infill block on every third layer after the first and on no    *)
(* other layer: the layer with zero-based index i carries infill exactly    *)
(* when i is a positive multiple of 3, and the infill uses that layer's z   *)
(* and the bounds (inner_radius, outer_radius).                             *)
(***************************************************************************)
C23_InfillEveryThirdLayer ==
    InfillWall =>
        \E outer \in {Arg("diameter_m", "diameter", Mm(6500)) \div 2} :
            \E inner \in {outer - Arg("wall_thickness_m", "wall_thickness", Mm(300))} :
                \A i \in LayerCommentPlaces :
                    IF Stream[i].I - 1 > 0 /\ (Stream[i].I - 1) % 3 = 0
                    THEN CarriesInfill(i, inner, outer)
                    ELSE CarriesNoInfill(i)

\* A wall of at least seven layers: infill on the fourth and the seventh.
C23_Witness ==
    /\ InfillWall
    /\ PlainRequest
    /\ Len(LayerComments) >= 7
    /\ Len(SelectSeq(Stream, IsInfillComment)) >= 2
    /\ \E i \in 1..Len(Stream) : IsHex(Stream[i])

\* The lines that may hold infill rings: those of the infill layer returned, or
\* the stream of a circular wall.
HasInfillLines ==
    \/ HoneycombReturned
    \/ HasStream /\ Kind = "generate_circular_wall"

InfillLines == IF HoneycombReturned THEN ret.lines ELSE Stream

RingPlaces == {p \in 1..Len(InfillLines) : IsRingComment(InfillLines[p])}

Sq(x) == x * x

\* The squared distance between the targets of two moves.
Dist2(a, b) == Sq(a.X - b.X) + Sq(a.Y - b.Y)

\* The moves v (a ring's lines after its comment) are 7 linear moves: six
\* vertices of a regular hexagon of radius R about the origin, starting on the
\* X axis (each vertex at distance R from the origin and from the next one,
\* within the rounding of the three-decimal format), and a move back to the first.
IsClosedHexagon(v, R) ==
    /\ Len(v) = 7
    /\ \A i \in 1..7 : IsHex(v[i]) /\ v[i].w = (IF i = 1 THEN {"X", "Y", "Z"} ELSE {"X", "Y"})
    /\ v[1].X = R /\ v[1].Y = 0
    /\ \A i \in 1..6 :
          /\ Abs(Sq(v[i].X) + Sq(v[i].Y) - Sq(R)) <= 3 * Abs(R) + 3
          /\ Abs(Dist2(v[i], v[i + 1]) - Sq(R)) <= 4 * Abs(R) + 4
    /\ \A i \in 1..3 : v[i + 3].X = -v[i].X /\ v[i + 3].Y = -v[i].Y
    /\ v[7].X = v[1].X /\ v[7].Y = v[1].Y

(***************************************************************************)
(* C24.  Each infill ring consists of exactly 7 linear moves: 6 vertices at *)
(* successive 60-degree increments on the ring radius, the first of them    *)
(* carrying the layer's z, followed by one closing move whose target is the *)
(* ring's first vertex.                                                     *)
(***************************************************************************)
C24_RingIsClosedHexagon ==
    HasInfillLines =>
        /\ \A p \in RingPlaces :
              /\ p + 7 <= Len(InfillLines)
              /\ IsClosedHexagon(SubSeq(InfillLines, p + 1, p + 7), InfillLines[p].X)
              /\ p + 8 <= Len(InfillLines) => ~IsHex(InfillLines[p + 8])
              /\ HoneycombReturned => InfillLines[p + 1].Z = Fmt3(call.args.z)
        /\ Len(SelectSeq(InfillLines, IsHex)) = 7 * Cardinality(RingPlaces)

C24_Witness ==
    /\ HoneycombReturned
    /\ Cardinality(RingPlaces) = 3
    /\ call.args.z = Mm(80)
    /\ Len(SelectSeq(InfillLines, IsHex)) = 21

\* A length of the model in the unit of the stream's coordinate words.
Thousandths(x) == x \div UnitsPerMm

\* The target of the motion at place i of the stream lies inside the envelope of
\* the profile: within reach_radius_m of the origin and not above max_height_m.
InsideEnvelope(i) ==
    /\ Sq(Stream[i].X) + Sq(Stream[i].Y) <= Sq(Thousandths(slicer.config.reach_radius_m))
    /\ "Z" \in Stream[i].w => Stream[i].Z <= Thousandths(slicer.config.max_height_m)

(***************************************************************************)
(* C25.  Whenever the compatibility report returned by generate_for_printer *)
(* marks no dimension as exceeding, every coordinate of every motion        *)
(* command in the returned G-code lies inside the profile's envelope:       *)
(* horizontal distance from the origin <= reach_radius_m and z <=           *)
(* max_height_m, for all three typologies.  C25_UnmarkedStaysInside is      *)
(* violated: the report never compares a length with the reach, and it      *)
(* covers only the parameters passed.                                       *)
(***************************************************************************)
C25_UnmarkedStaysInside ==
    ( /\ ForPrinterReturned
      /\ ret.error = "none"
      /\ ~ReportMarksReach
      /\ ~ReportMarksHeight )
    => \A i \in LayerPlaces : IsMotion(Stream[i]) => InsideEnvelope(i)

\* The profiles get_printer_config registers.
RegisteredProfiles == {wasp_crane, generic_earth, cobod_bod2}

(***************************************************************************)
(* C26.  No feed rate in an emitted instruction stream exceeds the selected *)
(* profile's maximum print speed: for every command with an F word, F <=    *)
(* max_print_speed_mm_s * 60, for every registered profile and every        *)
(* strategy, preamble included.  C26_FeedWithinProfile is violated: the     *)
(* preamble moves at F3000 whatever the profile, above the 2400 mm/min of   *)
(* the Generic Earth Printer.                                               *)
(***************************************************************************)
C26_FeedWithinProfile ==
    (HasStream /\ PlainRequest /\ slicer.config \in RegisteredProfiles) =>
        \A i \in 1..Len(Stream) :
            "F" \in Stream[i].w => Stream[i].F <= slicer.config.max_print_speed_mm_s * 60

\* The value of a coordinate word (held in thousandths) that stands for the
\* length x in millimetres, the unit G21 declares: x in metres times 1000.
MillimetreWord(x) == 1000 * Fmt3(x)

(***************************************************************************)
(* C27.  All coordinate words in the stream use one unit, the millimetres   *)
(* declared by the G21 preamble: every X, Y, Z, I and J value emitted for a *)
(* layer equals the corresponding geometry value in metres times 1000,      *)
(* consistently with the preamble's own Z move.                             *)
(* C27_CoordinatesInMillimetres is violated: the layers print the values in *)
(* metres (Z0.020 for a layer at 20 mm), the preamble prints Z50 for 50 mm. *)
(***************************************************************************)
C27_CoordinatesInMillimetres ==
    (HasStream /\ PlainRequest) =>
        /\ \E i \in 1..Len(Stream) : Stream[i] = SafeHeightMove
        /\ \A k \in 1..Len(LayerStarts) :
              /\ LayerStarts[k].Z = MillimetreWord(k * slicer.layer_height)
              /\ Kind # "generate_straight_wall"
                    => LayerStarts[k].X = MillimetreWord(StreamDiameter \div 2)

ArcPlaces == {i \in 1..Len(Stream) : IsArc(Stream[i])}

\* The line at place i moves the head to a position in the plane.
MovesInPlane(i) == IsMotion(Stream[i]) /\ {"X", "Y"} \subseteq Stream[i].w

(***************************************************************************)
(* C29.  Every G2/G3 arc is a well-formed full circle about the origin:     *)
(* tracking the head position through the stream, the position just before  *)
(* each arc equals the arc's X/Y endpoint, and that position plus the       *)
(* (I, J) offset is the origin, in every layer of the circular wall (also   *)
(* after an infill block) and of the spiral.                                *)
(***************************************************************************)
C29_ArcsAreFullCircles ==
    (HasStream /\ Kind # "generate_straight_wall") =>
        \A i \in ArcPlaces :
            /\ i > 1
            /\ MovesInPlane(i - 1)
            /\ Stream[i - 1].X = Stream[i].X /\ Stream[i - 1].Y = Stream[i].Y
            /\ Stream[i].X + Stream[i].I = 0
            /\ Stream[i].Y + Stream[i].J = 0

\* A circular wall with an infill block and arcs in the layers after it.
C29_Witness ==
    /\ HasStream
    /\ Kind = "generate_circular_wall"
    /\ PlainRequest
    /\ Len(LayerComments) >= 5
    /\ \E i \in ArcPlaces : \E j \in 1..(i - 1) : IsHex(Stream[j])

(***************************************************************************)
(* C30.  HabitatGenerator.generate produces G-code and a compatibility      *)
(* report for the geometry the caller asked for: for single_pod, the height *)
(* (and wall thickness) used to slice the G-code and to check the envelope  *)
(* equal the height passed to generate and used to build the SinglePod      *)
(* geometry.  C30_HeightOfRequestUsed is violated: the G-code is sliced and *)
(* the envelope checked for a height of 3.2 m whatever height was passed.   *)
(***************************************************************************)
C30_HeightOfRequestUsed ==
    (GenerateReturned /\ call.args.typology = "single_pod") =>
        \E height \in {Get(call.args.kwargs, "height", Mm(3200))} :
            /\ ret.stages.geometry.data.height = height
            /\ ret.stages.compatibility.geometry_specs.height = height
            /\ Len(SelectSeq(ret.stages.gcode.content, IsLayerComment))
                   = LayerCount(GenericSlicer(get_printer_config(ret.printer)), height)

=============================================================================
